---- MODULE Spec2Model ----
(***************************************************************************)
(* Offline-reconciliation subsystem of the St-Joseph-Academy Notice API.   *)
(*                                                                         *)
(* Two parts are modelled:                                                 *)
(*   - the remote bulk-upsert endpoints POST /api/<kind>/sync-local        *)
(*     (routes/reports.js, routes/notices.js, the media router and the     *)
(*     second notices router), at the granularity of their awaits          *)
(*     (findOne, save), over one collection;                               *)
(*   - the client AuthSyncService (authSyncService.js): start, stop,       *)
(*     authenticate, checkConnectionAndSync, syncData and the three        *)
(*     pipelines, at the granularity of their awaits.                      *)
(***************************************************************************)
EXTENDS Integers, Sequences, FiniteSets, Bags, TLC

VARIABLES
    \* ---- remote side: one router and its collection ----
    kind,        \* which router this behaviour exercises
    topInfo,     \* whether request bodies carry a top-level noticeInfo object
    posted,      \* the record array every request of this behaviour posts
    store,       \* the collection: sequence of saved documents, _id = position
    reqs,        \* sync-local requests: request id -> request state
    \* ---- client side: one AuthSyncService instance ----
    accessToken,    \* "none" (null), or the held token: "valid" / "expired"
    isOnline,       \* this.isOnline
    retryCount,     \* this.retryCount
    syncInterval,   \* TRUE iff this.syncInterval holds a timer handle
    liveIntervals,  \* number of periodic timers armed and not cleared
    tasks,          \* bag of async invocations in flight (start / checkConnectionAndSync)
    timers,         \* bag of backoff setTimeout callbacks scheduled and not yet fired
    stopped,        \* stop() has returned and start() was not called since
    startRets,      \* the values start() has returned so far
    lastCb,         \* the last callback invoked (onSyncComplete / onSyncError)
    noAnswerYet,    \* no probe was answered and stop() was not called so far
    \* ---- one syncData() pass and one backoff computation, in detail ----
    files,          \* kind -> condition of the local snapshot file
    pass,           \* the syncData() call: position, results, callbacks invoked
    backoff,        \* configured retryDelay, retryCount and what getRetryDelay() returns
    xform,          \* one pipeline run: the snapshot read, the body sent, the outcome
    silent          \* the remote accepts connections but answers nothing any more

remoteVars == <<kind, topInfo, posted, store, reqs>>

clientVars == <<accessToken, isOnline, retryCount, syncInterval, liveIntervals,
                tasks, timers, stopped, startRets, lastCb, noAnswerYet>>

unitVars == <<files, pass, backoff, xform, silent>>

vars == <<kind, topInfo, posted, store, reqs,
          accessToken, isOnline, retryCount, syncInterval, liveIntervals,
          tasks, timers, stopped, startRets, lastCb, noAnswerYet,
          files, pass, backoff, xform, silent>>

(***************************************************************************)
(* Bounds                                                                  *)
(***************************************************************************)
MaxBatch == 2    \* longest request batch
MaxReqs  == 2    \* number of sync-local requests in one behaviour
MaxTasks == 2    \* async invocations of the service in flight at once
MaxTimers == 1   \* backoff callbacks pending at once
MaxIntervals == 2  \* periodic timers armed at once (start() without stop())
MaxChain == 6    \* chain positions are counted up to this value

(***************************************************************************)
(* Configuration defaults of AuthSyncService                               *)
(***************************************************************************)
retryDelay == 60000
maxRetries == 5
MaxDelay   == 300000

(***************************************************************************)
(* Records submitted to sync-local                                         *)
(*   shape : "null" (JSON null), "flat" (an object without its nested      *)
(*           objects noticeInfo/eventSchedule/reportInfo), "full"          *)
(*   title : the title field                                               *)
(*   k     : the remaining MatchKey fields, "none" when they are absent    *)
(*   body  : the non-key fields                                            *)
(*   ok    : whether the document passes schema validation on save         *)
(***************************************************************************)
RA    == [shape |-> "full", title |-> "A",  k |-> "k1",   body |-> 1, ok |-> TRUE]
RAw   == [shape |-> "full", title |-> " A", k |-> "k1",   body |-> 1, ok |-> TRUE]
RB    == [shape |-> "full", title |-> "B",  k |-> "k1",   body |-> 1, ok |-> TRUE]
RBad  == [shape |-> "full", title |-> "C",  k |-> "k1",   body |-> 1, ok |-> FALSE]
RFlat == [shape |-> "flat", title |-> "D",  k |-> "none", body |-> 1, ok |-> FALSE]
RNull == [shape |-> "null", title |-> "",   k |-> "none", body |-> 0, ok |-> FALSE]

RecordVals == {RA, RAw, RB, RBad, RFlat, RNull}

Batches == UNION {[1..n -> RecordVals] : n \in 0..MaxBatch}

\* The routers: reports.js, the media router, routes/notices.js ("notices")
\* and the second notices router, which adds validateNoticeDetails ("noticesV").
Kinds == {"reports", "media", "notices", "noticesV"}

\* String.prototype.trim on the titles of the model.
Trim(s) == IF s = " A" THEN "A" ELSE s

\* Schema option trim: true on the title path (Report and Media; not Notice).
TitleTrimmed(kd) == kd \in {"reports", "media"}

\* The value the title setter stores / the query caster looks up.
CastTitle(kd, t) == IF TitleTrimmed(kd) THEN Trim(t) ELSE t

\* The document a successful save() stores.
SavedDoc(kd, rec) == [title |-> CastTitle(kd, rec.title), k |-> rec.k, body |-> rec.body]

\* MatchKey of a stored document / of a submitted record as the query casts it.
DocKey(d) == <<d.title, d.k>>

\* A query that is sent to the collection as submitted, without casting.
QueryKeyRaw(kd, rec) == <<rec.title, rec.k>>

QueryKey(kd, rec) == <<CastTitle(kd, rec.title), rec.k>>

\* Model.findOne({$and: [...]}): position of the first matching document, 0 if none.
FindOne(kd, st, rec) ==
    LET hits == {i \in 1..Len(st) : DocKey(st[i]) = QueryKey(kd, rec)}
    IN IF hits = {} THEN 0 ELSE CHOOSE i \in hits : \A j \in hits : i <= j

\* Evaluating the findOne call throws (a TypeError) inside the per-record try.
FindThrows(kd, rec) ==
    \/ rec.shape = "null"
    \/ rec.shape = "flat" /\ kd # "media"

\* The per-record catch evaluates record.title, which throws again for null.
CatchThrows(rec) == rec.shape = "null"

\* The Authorization header of a request: absent, empty, the scheme alone,
\* another scheme with credentials, or the scheme with a token that fails
\* ("bad": invalid or expired) or passes ("good") jwt.verify.
Headers == {"absent", "", "Bearer", "Basic bad", "Bearer bad", "Bearer good"}

\* const token = authHeader && authHeader.split(' ').pop(); "none" is undefined.
ExtractToken(h) ==
    IF h = "absent" THEN "none"
    ELSE IF h = "Bearer" THEN "Bearer"
    ELSE IF h = "" THEN ""
    ELSE IF h = "Bearer good" THEN "good"
    ELSE "bad"

\* authenticateToken: 0 = next(), otherwise the status it answers.
authenticateToken(tok) ==
    IF tok \in {"none", ""} THEN 401 ELSE IF tok = "good" THEN 0 ELSE 403

\* validateNoticeDetails: 0 = next(), 400 when the body has no noticeInfo.
validateNoticeDetails(hasInfo) == IF hasInfo THEN 0 ELSE 400

IdleReq == [pc |-> "idle", batch |-> << >>, idx |-> 0, status |-> 0,
            success |-> << >>, failed |-> << >>, base |-> 0, prior |-> {}]

ReqIds == 1..MaxReqs

DoneReqs == {q \in ReqIds : reqs[q].pc = "done"}

\* After record idx: next record, or the 200 response when it was the last.
Advance(q, rq) ==
    IF rq.idx >= Len(rq.batch)
    THEN [rq EXCEPT !.pc = "done", !.status = 200]
    ELSE [rq EXCEPT !.pc = "find", !.idx = rq.idx + 1]

\* The inner catch: push a failed entry, or abort with 500 when it throws.
InnerCatch(q, rq) ==
    IF CatchThrows(rq.batch[rq.idx])
    THEN [rq EXCEPT !.pc = "done", !.status = 500]
    ELSE Advance(q, [rq EXCEPT !.failed = Append(rq.failed, rq.batch[rq.idx].title)])

(***************************************************************************)
(* POST /sync-local arrives: middleware, then the handler up to its first  *)
(* await.  Requests are numbered in arrival order.                         *)
(***************************************************************************)
Submit(q, tok) ==
    /\ reqs[q].pc = "idle"
    /\ \A p \in ReqIds : p < q => reqs[p].pc # "idle"
    /\ LET batch == posted
           auth  == authenticateToken(tok)
           val   == IF kind = "noticesV" THEN validateNoticeDetails(topInfo) ELSE 0
           rq0   == [IdleReq EXCEPT !.batch = batch, !.base = Len(store),
                                    !.prior = DoneReqs]
       IN reqs' = [reqs EXCEPT ![q] =
            IF auth # 0 THEN [rq0 EXCEPT !.pc = "done", !.status = auth]
            ELSE IF val # 0 THEN [rq0 EXCEPT !.pc = "done", !.status = val]
            ELSE IF Len(batch) = 0 THEN [rq0 EXCEPT !.pc = "done", !.status = 404]
            ELSE [rq0 EXCEPT !.pc = "find", !.idx = 1]]
    /\ UNCHANGED <<kind, topInfo, posted, store, clientVars, unitVars>>

\* A skipped branch that overwrites the document it found.
SkippedStoreOverwrites(kd, st, hit, rec) == [st EXCEPT ![hit] = SavedDoc(kd, rec)]

\* The collection after the skipped branch: it pushes a result and continues.
SkippedStore(kd, st, hit, rec) == st

\* await Model.findOne(...) for the current record resolves (or throws).
FindStep(q) ==
    /\ reqs[q].pc = "find"
    /\ LET rq  == reqs[q]
           rec == rq.batch[rq.idx]
           hit == FindOne(kind, store, rec)
       IN /\ reqs' = [reqs EXCEPT ![q] =
            IF FindThrows(kind, rec) THEN InnerCatch(q, rq)
            ELSE IF hit # 0
                 THEN Advance(q, [rq EXCEPT !.success =
                          Append(rq.success, [status |-> "skipped", id |-> hit])])
                 ELSE [rq EXCEPT !.pc = "save"]]
          /\ store' = IF ~FindThrows(kind, rec) /\ hit # 0
                      THEN SkippedStore(kind, store, hit, rec) ELSE store
    /\ UNCHANGED <<kind, topInfo, posted, clientVars, unitVars>>

\* await new Model(record).save() resolves (or rejects with a validation error).
SaveStep(q) ==
    /\ reqs[q].pc = "save"
    /\ LET rq  == reqs[q]
           rec == rq.batch[rq.idx]
       IN IF rec.ok
          THEN /\ store' = Append(store, SavedDoc(kind, rec))
               /\ reqs' = [reqs EXCEPT ![q] = Advance(q, [rq EXCEPT !.success =
                      Append(rq.success, [status |-> "created", id |-> Len(store) + 1])])]
          ELSE /\ store' = store
               /\ reqs' = [reqs EXCEPT ![q] = InnerCatch(q, rq)]
    /\ UNCHANGED <<kind, topInfo, posted, clientVars, unitVars>>

\* The kinds in the order syncData() runs their pipelines.
PassKinds == <<"notices", "reports", "media">>

\* syncData() has not been called.
IdlePass == [pc |-> "idle", results |-> << >>, resps |-> << >>, datas |-> << >>,
             sents |-> << >>, completeCalls |-> 0, errorCalls |-> 0]

\* The detailed pass and the backoff computation while they are not exercised.
IdleXform == [kd |-> 1, local |-> << >>, sent |-> << >>, pc |-> "idle",
              outcome |-> "none"]

IdleUnit ==
    /\ files = [i \in 1..3 |-> "missing"]
    /\ pass = IdlePass
    /\ backoff = [cfg |-> retryDelay, rc |-> 0, delay |-> retryDelay]
    /\ xform = IdleXform
    /\ silent = FALSE

\* Documents the collection may hold before the first request.
DocA0 == [title |-> "A", k |-> "k1", body |-> 0]

NoCb == [type |-> "none", msg |-> ""]

\* The state the constructor leaves.
InitClient ==
    /\ accessToken = "none"
    /\ isOnline = FALSE
    /\ retryCount = 0
    /\ syncInterval = FALSE
    /\ liveIntervals = 0
    /\ tasks = EmptyBag
    /\ timers = EmptyBag
    /\ stopped = TRUE
    /\ startRets = {}
    /\ lastCb = NoCb
    /\ noAnswerYet = TRUE

InitRemote ==
    /\ InitClient
    /\ IdleUnit
    /\ kind \in Kinds
    /\ topInfo \in (IF kind = "noticesV" THEN BOOLEAN ELSE {FALSE})
    /\ posted \in Batches
    /\ store \in {<< >>, <<DocA0>>}
    /\ reqs = [q \in ReqIds |-> IdleReq]

RequestArrives == \E q \in ReqIds, h \in Headers : Submit(q, ExtractToken(h))

FindReturns == \E q \in ReqIds : FindStep(q)

SaveReturns == \E q \in ReqIds : SaveStep(q)

NextRemote ==
    \/ RequestArrives
    \/ FindReturns
    \/ SaveReturns

SpecRemote == InitRemote /\ [][NextRemote]_vars

(***************************************************************************)
(* AuthSyncService                                                         *)
(*                                                                         *)
(* A task is one async invocation in flight:                               *)
(*   pc     : the await it is suspended at: "login" (start's authenticate),*)
(*            "probe" (GET /api/health), "reauth" (authenticate after a    *)
(*            401), "notices" / "reports" / "media" (the pipelines of      *)
(*            syncData)                                                    *)
(*   st     : TRUE when start() awaits this invocation                     *)
(*   branch : where syncData was called from: "try" (line 114) or "catch"  *)
(*            (line 125)                                                   *)
(*   depth  : position of the probe in its chain: 1 for a probe issued by  *)
(*            start() or the periodic timer, n+1 for the probe of a        *)
(*            backoff callback scheduled by the n-th probe of the chain;   *)
(*            positions are tracked while no probe was answered and stop() *)
(*            was not called (noAnswerYet), and are 0 afterwards           *)
(***************************************************************************)
Min(a, b) == IF a <= b THEN a ELSE b

Pow2(n) == IF n <= 0 THEN 1 ELSE 2 ^ n

\* getRetryDelay() without the Math.min against the ceiling.
RetryDelayUncapped(base, rc) == base * Pow2(rc)

\* getRetryDelay() with this.config.retryDelay = base and this.retryCount = rc.
RetryDelayOf(base, rc) == Min(base * Pow2(rc), MaxDelay)

\* getRetryDelay() with this.retryCount = rc under the default configuration.
getRetryDelay(rc) == RetryDelayOf(retryDelay, rc)

\* A retry test that still passes with retryCount = maxRetries.
CanRetryInclusive(rc) == rc <= maxRetries

\* if (this.retryCount < this.config.maxRetries)
CanRetry(rc) == rc < maxRetries

\* axios resolves a 2xx response and rejects every other status (0: no response).
Resolves(resp) == resp \in {200, 204}

\* A service for which no response counts as Online.
IsOnlineNever(resp) == FALSE

\* if (response.status === 200)
IsOnlineResponse(resp) == resp = 200

\* if (error.response?.status === 401)
IsAuthExpired(resp) == resp = 401

\* start() without the early return on a failed authenticate().
StartProceedsAnyway(isAuthenticated) == TRUE

\* start(): if (!isAuthenticated) return false
StartProceeds(isAuthenticated) == isAuthenticated

\* The token authenticate() leaves in this.accessToken.
authenticate(ok, cur) == IF ok THEN "valid" ELSE cur

\* if (!this.accessToken) throw new Error('Not authenticated')
NotAuthenticated(tok) == tok = "none"

ProbeResponses == {200, 204, 401, 403, 500, 0}

PipelineOutcomes == {"skipped", "success", "error"}

ErrorCb(m) == [type |-> "error", msg |-> m]

CompleteCb == [type |-> "complete", msg |-> ""]

\* The process-level event of a promise rejection nobody handles.
UnhandledRejection == [type |-> "unhandledRejection", msg |-> "callback failed"]

NewTask(pc, st, depth) ==
    [pc |-> pc, st |-> st, branch |-> "try", depth |-> depth]

ZeroDepth(x) == [x EXCEPT !.depth = 0]

ZeroTimer(x) == [x EXCEPT !.depth = 0, !.delay = 0]

\* Chain positions (and the delays of the chain's timers) are recorded while
\* noAnswerYet holds and forgotten once it is over.
Tracked(b) == IF noAnswerYet' THEN b ELSE BagOfAll(ZeroDepth, b)

TrackedTimers(b) == IF noAnswerYet' THEN b ELSE BagOfAll(ZeroTimer, b)

Spawn(t) == Tracked(tasks (+) SetToBag({t}))

Drop(t) == Tracked(tasks (-) SetToBag({t}))

Move(t, u) == Tracked((tasks (-) SetToBag({t})) (+) SetToBag({u}))

InFlight(pcs) == {t \in BagToSet(tasks) : t.pc \in pcs}

CountAt(pcs) ==
    LET S == InFlight(pcs)
        RECURSIVE Sum(_)
        Sum(X) == IF X = {} THEN 0
                  ELSE LET x == CHOOSE y \in X : TRUE
                       IN CopiesIn(x, tasks) + Sum(X \ {x})
    IN Sum(S)

\* The invocation's promise resolves: start() arms the periodic timer and
\* returns true; a timer callback just ends.
Resolved(t) ==
    /\ tasks' = Drop(t)
    /\ IF t.st
       THEN /\ liveIntervals' = liveIntervals + 1
            /\ syncInterval' = TRUE
            /\ startRets' = startRets \cup {TRUE}
       ELSE UNCHANGED <<liveIntervals, syncInterval, startRets>>

\* The invocation's promise rejects after onSyncError(error): start() catches
\* and returns false; for a timer callback nobody handles the rejection.
Rejected(t) ==
    /\ tasks' = Drop(t)
    /\ UNCHANGED <<liveIntervals, syncInterval>>
    /\ IF t.st
       THEN startRets' = startRets \cup {FALSE} /\ lastCb' = ErrorCb("callback failed")
       ELSE startRets' = startRets /\ lastCb' = UnhandledRejection

\* Lines 128-140: the else branch of the catch, entered with retryCount = rc
\* and cb the last callback invoked so far; then the invocation resolves.
UnreachableWithin(t, rc, cb, cap) ==
    /\ isOnline' = FALSE
    /\ IF CanRetry(rc)
       THEN /\ BagCardinality(timers) < cap
            /\ retryCount' = rc + 1
            /\ timers' = TrackedTimers(timers (+) SetToBag({[depth |-> Min(t.depth + 1, MaxChain),
                                                       delay |-> getRetryDelay(rc + 1)]}))
            /\ lastCb' = cb
       ELSE /\ retryCount' = rc
            /\ timers' = TrackedTimers(timers)
            /\ lastCb' = ErrorCb("Max retries reached")
    /\ Resolved(t)

UnreachableHandling(t, rc, cb) == UnreachableWithin(t, rc, cb, MaxTimers)

\* start() is called: it runs up to its await authenticate().
Start ==
    /\ BagCardinality(tasks) < MaxTasks
    /\ liveIntervals < MaxIntervals
    /\ \A t \in BagToSet(tasks) : ~t.st
    /\ UNCHANGED noAnswerYet
    /\ tasks' = Spawn(NewTask("login", TRUE, 1))
    /\ stopped' = FALSE
    /\ UNCHANGED <<accessToken, isOnline, retryCount, syncInterval, liveIntervals,
                   timers, startRets, lastCb, remoteVars, unitVars>>

\* start()'s authenticate() completes: on success start() calls
\* checkConnectionAndSync(), which issues the probe; on failure it returns false.
LoginDone(t, ok) ==
    /\ t \in BagToSet(tasks) /\ t.pc = "login"
    /\ UNCHANGED noAnswerYet
    /\ accessToken' = authenticate(ok, accessToken)
    /\ IF StartProceeds(ok)
       THEN /\ tasks' = Move(t, [t EXCEPT !.pc = "probe"])
            /\ UNCHANGED <<startRets, lastCb>>
       ELSE /\ tasks' = Drop(t)
            /\ startRets' = startRets \cup {FALSE}
            /\ lastCb' = ErrorCb("Authentication failed")
    /\ UNCHANGED <<isOnline, retryCount, syncInterval, liveIntervals, timers,
                   stopped, remoteVars, unitVars>>

\* The periodic timer fires: checkConnectionAndSync() issues a probe.
Tick ==
    /\ liveIntervals >= 1
    /\ BagCardinality(tasks) < MaxTasks
    /\ UNCHANGED noAnswerYet
    /\ tasks' = Spawn(NewTask("probe", FALSE, 1))
    /\ UNCHANGED <<accessToken, isOnline, retryCount, syncInterval, liveIntervals,
                   timers, stopped, startRets, lastCb, remoteVars, unitVars>>

\* A backoff callback fires: checkConnectionAndSync() issues a probe.
BackoffFire(tm) ==
    /\ tm \in BagToSet(timers)
    /\ BagCardinality(tasks) < MaxTasks
    /\ UNCHANGED noAnswerYet
    /\ timers' = timers (-) SetToBag({tm})
    /\ tasks' = Spawn(NewTask("probe", FALSE, tm.depth))
    /\ UNCHANGED <<accessToken, isOnline, retryCount, syncInterval, liveIntervals,
                   stopped, startRets, lastCb, remoteVars, unitVars>>

\* The health probe completes with status resp (0: timeout / no response).
ProbeDoneWithin(t, resp, cap) ==
    /\ t \in BagToSet(tasks) /\ t.pc = "probe"
    /\ noAnswerYet' = (noAnswerYet /\ resp = 0)
    /\ IF Resolves(resp) /\ IsOnlineResponse(resp) /\ ~NotAuthenticated(accessToken)
       THEN \* Online: syncData() starts its first pipeline
            /\ isOnline' = TRUE
            /\ retryCount' = 0
            /\ tasks' = Move(t, [t EXCEPT !.pc = "notices", !.branch = "try"])
            /\ timers' = TrackedTimers(timers)
            /\ UNCHANGED <<lastCb, liveIntervals, syncInterval, startRets>>
       ELSE IF Resolves(resp) /\ IsOnlineResponse(resp)
       THEN \* Online, but syncData() throws 'Not authenticated' into the catch
            UnreachableWithin(t, 0, lastCb, cap)
       ELSE IF Resolves(resp)
       THEN \* a 2xx other than 200: nothing happens
            /\ timers' = TrackedTimers(timers)
            /\ UNCHANGED <<isOnline, retryCount, lastCb>>
            /\ Resolved(t)
       ELSE IF IsAuthExpired(resp)
       THEN /\ tasks' = Move(t, [t EXCEPT !.pc = "reauth"])
            /\ timers' = TrackedTimers(timers)
            /\ UNCHANGED <<isOnline, retryCount, lastCb, liveIntervals,
                           syncInterval, startRets>>
       ELSE UnreachableWithin(t, retryCount, lastCb, cap)
    /\ UNCHANGED <<accessToken, stopped, remoteVars, unitVars>>

ProbeDone(t, resp) == ProbeDoneWithin(t, resp, MaxTimers)

\* The authenticate() of the 401 branch completes.
ReauthDone(t, ok) ==
    /\ t \in BagToSet(tasks) /\ t.pc = "reauth"
    /\ UNCHANGED noAnswerYet
    /\ accessToken' = authenticate(ok, accessToken)
    /\ IF ok
       THEN /\ tasks' = Move(t, [t EXCEPT !.pc = "notices", !.branch = "catch"])
            /\ UNCHANGED <<lastCb, liveIntervals, syncInterval, startRets>>
       ELSE /\ lastCb' = ErrorCb("Authentication failed")
            /\ Resolved(t)
    /\ UNCHANGED <<isOnline, retryCount, timers, stopped, remoteVars, unitVars>>

\* syncNotices() / syncReports() returns its result; the next pipeline starts.
PipelineDone(t, out) ==
    /\ t \in BagToSet(tasks) /\ t.pc \in {"notices", "reports"}
    /\ UNCHANGED noAnswerYet
    /\ tasks' = Move(t, [t EXCEPT !.pc = IF t.pc = "notices" THEN "reports" ELSE "media"])
    /\ UNCHANGED <<accessToken, isOnline, retryCount, syncInterval, liveIntervals,
                   timers, stopped, startRets, lastCb, remoteVars, unitVars>>

\* syncMedia() returns; syncData() invokes onSyncComplete(results), which may
\* throw, resets retryCount and returns.
MediaDone(t, out, throws) ==
    /\ t \in BagToSet(tasks) /\ t.pc = "media"
    /\ UNCHANGED noAnswerYet
    /\ IF ~throws
       THEN /\ lastCb' = CompleteCb
            /\ retryCount' = 0
            /\ UNCHANGED <<isOnline, timers>>
            /\ Resolved(t)
       ELSE IF t.branch = "try"
       THEN UnreachableHandling(t, retryCount, ErrorCb("callback failed"))
       ELSE /\ UNCHANGED <<isOnline, retryCount, timers>>
            /\ Rejected(t)
    /\ UNCHANGED <<accessToken, stopped, remoteVars, unitVars>>

\* stop()
Stop ==
    /\ noAnswerYet' = FALSE
    /\ tasks' = Tracked(tasks)
    /\ timers' = TrackedTimers(timers)
    /\ IF syncInterval
       THEN liveIntervals' = liveIntervals - 1 /\ syncInterval' = FALSE
       ELSE UNCHANGED <<liveIntervals, syncInterval>>
    /\ accessToken' = "none"
    /\ isOnline' = FALSE
    /\ retryCount' = 0
    /\ stopped' = TRUE
    /\ UNCHANGED <<startRets, lastCb, remoteVars, unitVars>>

\* The remote side while only the client is exercised.
IdleRemote ==
    /\ kind = "notices"
    /\ topInfo = FALSE
    /\ posted = << >>
    /\ store = << >>
    /\ reqs = [q \in ReqIds |-> IdleReq]

Init == InitClient /\ IdleRemote /\ IdleUnit

LoginReturns == \E t \in BagToSet(tasks), ok \in BOOLEAN : LoginDone(t, ok)

BackoffFires == \E tm \in BagToSet(timers) : BackoffFire(tm)

ProbeReturns == \E t \in BagToSet(tasks), resp \in ProbeResponses : ProbeDone(t, resp)

ReauthReturns == \E t \in BagToSet(tasks), ok \in BOOLEAN : ReauthDone(t, ok)

PipelineReturns ==
    \E t \in BagToSet(tasks), out \in PipelineOutcomes : PipelineDone(t, out)

MediaReturns ==
    \E t \in BagToSet(tasks), out \in PipelineOutcomes, throws \in BOOLEAN :
        MediaDone(t, out, throws)

Next ==
    \/ Start
    \/ LoginReturns
    \/ Tick
    \/ BackoffFires
    \/ ProbeReturns
    \/ ReauthReturns
    \/ PipelineReturns
    \/ MediaReturns
    \/ Stop

Spec == Init /\ [][Next]_vars

(***************************************************************************)
(* One syncData() pass in detail: the local snapshot files, the three      *)
(* pipelines and the callbacks.                                            *)
(*   files[i] : the snapshot file of PassKinds[i]:                         *)
(*     "missing"     the file does not exist (ENOENT)                      *)
(*     "unreadable"  fs.readFile fails with another error                  *)
(*     "unparseable" JSON.parse throws                                     *)
(*     "noKey"       a JSON object without the kind's array                *)
(*     "empty"       the kind's array is empty                             *)
(*     "records"     the kind's array holds records                        *)
(*     "nullRecord"  the kind's array holds a null element                 *)
(***************************************************************************)
FileStates == {"missing", "unreadable", "unparseable", "noKey", "empty",
               "records", "nullRecord"}

\* Outcomes of the axios.post to sync-local: a status, or 0 for no response.
PostResponses == {200, 403, 500, 0}

\* readLocalFile(): the parsed data, or the error it rethrows.
readLocalFile(f) ==
    IF f = "missing" THEN [raised |-> FALSE, data |-> "default", msg |-> ""]
    ELSE IF f = "unreadable" THEN [raised |-> TRUE, data |-> "", msg |-> "EACCES"]
    ELSE IF f = "unparseable" THEN [raised |-> TRUE, data |-> "", msg |-> "Unexpected token"]
    ELSE [raised |-> FALSE, data |-> f, msg |-> ""]

\* const records = localData.<kind> || []
LocalRecords(data) == IF data \in {"default", "noKey", "empty"} THEN "none" ELSE data

\* error.message of a rejected axios.post.
RequestMessage(resp) ==
    IF resp = 0 THEN "timeout exceeded"
    ELSE IF resp = 403 THEN "Request failed with status code 403"
    ELSE "Request failed with status code 500"

\* response.data.data of a sync-local answer: the per-record outcome
\* (success list, failed list, summary); "absent" when there is none.
RemoteOutcomes == {"outcome1", "outcome2"}

DataOf(resp) == IF resp = 200 THEN RemoteOutcomes ELSE {"absent"}

SkippedEntry == [status |-> "skipped", error |-> "", synced |-> "absent"]

\* syncNotices and syncReports return { status: 'success', synced:
\* response.data.data }; syncMedia returns { status: 'success' }.
SuccessEntry(i, data) ==
    [status |-> "success", error |-> "", synced |-> IF i = 3 THEN "absent" ELSE data]

ErrorEntry(msg) == [status |-> "error", error |-> msg, synced |-> "absent"]

\* A pipeline without the early return.
NeverSkips(recs) == FALSE

\* if (records.length === 0) return { status: 'skipped', ... }
SkipsOnEmpty(recs) == recs = "none"

\* The try block of syncNotices / syncReports / syncMedia: the entry it
\* returns, or the error it raises, and whether the axios.post was issued.
PipelineBody(i, f, resp, data) ==
    LET rd == readLocalFile(f)
    IN IF rd.raised
       THEN [raised |-> TRUE, msg |-> rd.msg, entry |-> SkippedEntry, sent |-> FALSE]
       ELSE IF SkipsOnEmpty(LocalRecords(rd.data))
       THEN [raised |-> FALSE, msg |-> "", entry |-> SkippedEntry, sent |-> FALSE]
       ELSE IF LocalRecords(rd.data) = "nullRecord"
       THEN [raised |-> TRUE, msg |-> "Cannot destructure", entry |-> SkippedEntry,
             sent |-> FALSE]
       ELSE IF resp = 200
       THEN [raised |-> FALSE, msg |-> "", entry |-> SuccessEntry(i, data), sent |-> TRUE]
       ELSE [raised |-> TRUE, msg |-> RequestMessage(resp), entry |-> SkippedEntry,
             sent |-> TRUE]

\* A pipeline that lets its errors escape.
PipelineRethrows(raised) == FALSE

\* The catch block of each pipeline returns the error entry.
PipelineCatches(raised) == raised

\* syncData() is called: the guard on accessToken, then syncNotices() starts.
syncData ==
    /\ pass.pc = "idle"
    /\ pass' = [pass EXCEPT !.pc = IF NotAuthenticated(accessToken)
                                   THEN "threw" ELSE "notices"]
    /\ UNCHANGED <<files, backoff, xform, silent, clientVars, remoteVars>>

\* The catch of syncData(): onSyncError(error), then rethrow.
PassFails(base, msg, complete) ==
    /\ pass' = [base EXCEPT !.pc = "threw", !.errorCalls = @ + 1,
                            !.completeCalls = @ + complete]
    /\ lastCb' = ErrorCb(msg)
    /\ UNCHANGED retryCount

\* await syncNotices() / syncReports() returns (or raises).
PassPipeline(i, resp, data) ==
    /\ i \in {1, 2} /\ pass.pc = PassKinds[i]
    /\ LET b == PipelineBody(i, files[i], resp, data)
       IN IF b.raised /\ ~PipelineCatches(b.raised)
          THEN PassFails(pass, b.msg, 0)
          ELSE /\ pass' = [pass EXCEPT
                       !.pc = PassKinds[i + 1],
                       !.results = Append(@, IF b.raised THEN ErrorEntry(b.msg) ELSE b.entry),
                       !.resps = Append(@, resp),
                       !.datas = Append(@, data),
                       !.sents = Append(@, b.sent)]
               /\ UNCHANGED <<lastCb, retryCount>>
    /\ UNCHANGED <<files, backoff, xform, silent, remoteVars, accessToken, isOnline, syncInterval,
                   liveIntervals, tasks, timers, stopped, startRets, noAnswerYet>>

\* await syncMedia() returns (or raises); then onSyncComplete(results), which
\* may throw, retryCount = 0 and return.
PassMedia(resp, data, throws) ==
    /\ pass.pc = PassKinds[3]
    /\ LET b == PipelineBody(3, files[3], resp, data)
       IN IF b.raised /\ ~PipelineCatches(b.raised)
          THEN PassFails(pass, b.msg, 0)
          ELSE LET res == Append(pass.results,
                                 IF b.raised THEN ErrorEntry(b.msg) ELSE b.entry)
                   rsp == Append(pass.resps, resp)
                   dts == Append(pass.datas, data)
                   sts == Append(pass.sents, b.sent)
               IN IF throws
                  THEN PassFails([pass EXCEPT !.results = res, !.resps = rsp,
                                              !.datas = dts, !.sents = sts],
                                 "callback failed", 1)
                  ELSE /\ pass' = [pass EXCEPT !.pc = "returned", !.results = res,
                                               !.resps = rsp, !.datas = dts,
                                               !.sents = sts,
                                               !.completeCalls = @ + 1]
                       /\ lastCb' = CompleteCb
                       /\ retryCount' = 0
    /\ UNCHANGED <<files, backoff, xform, silent, remoteVars, accessToken, isOnline, syncInterval,
                   liveIntervals, tasks, timers, stopped, startRets, noAnswerYet>>

\* A service that is running (or was stopped: no token) when syncData() is
\* called, with the snapshot files in any condition.
InitPass ==
    /\ IdleRemote
    /\ accessToken \in {"none", "valid"}
    /\ stopped = (accessToken = "none")
    /\ retryCount \in {0, 1}
    /\ isOnline = TRUE
    /\ syncInterval = TRUE
    /\ liveIntervals = 1
    /\ tasks = EmptyBag
    /\ timers = EmptyBag
    /\ startRets = {TRUE}
    /\ lastCb = NoCb
    /\ noAnswerYet = FALSE
    /\ files \in [1..3 -> FileStates]
    /\ pass = IdlePass
    /\ backoff = [cfg |-> retryDelay, rc |-> 0, delay |-> retryDelay]
    /\ xform = IdleXform
    /\ silent = FALSE

PassPipelineReturns ==
    \E i \in {1, 2}, resp \in PostResponses : \E data \in DataOf(resp) :
        PassPipeline(i, resp, data)

PassMediaReturns ==
    \E resp \in PostResponses, throws \in BOOLEAN : \E data \in DataOf(resp) :
        PassMedia(resp, data, throws)

NextPass ==
    \/ syncData
    \/ PassPipelineReturns
    \/ PassMediaReturns

SpecPass == InitPass /\ [][NextPass]_vars

(***************************************************************************)
(* Properties of the sync-local endpoints                                  *)
(***************************************************************************)
ValidRec(rec) == rec.shape = "full" /\ rec.ok

Count(results, st) == Cardinality({i \in 1..Len(results) : results[i].status = st})

Authorized(rq) == rq.status \notin {401, 403}

\* q2 is the call made right after q1 returned, nothing overlapping either.
InSuccession(q1, q2) ==
    /\ q2 = q1 + 1
    /\ reqs[q1].pc = "done" /\ reqs[q2].pc = "done"
    /\ reqs[q1].prior = 1..(q1 - 1)
    /\ reqs[q2].prior = 1..q1
    /\ Authorized(reqs[q1]) /\ Authorized(reqs[q2])

\* The batch holds N >= 1 valid records with pairwise different MatchKeys, none
\* of which the collection held when the request arrived.
FreshValidBatch(rq) ==
    /\ Len(rq.batch) >= 1
    /\ \A i \in 1..Len(rq.batch) :
          /\ ValidRec(rq.batch[i])
          /\ FindOne(kind, SubSeq(store, 1, rq.base), rq.batch[i]) = 0
          /\ \A j \in 1..Len(rq.batch) :
                i # j => QueryKey(kind, rq.batch[i]) # QueryKey(kind, rq.batch[j])

\* C1 (as claimed): idempotence of sync-local for every kind.  Submitting the
\* same N valid records twice in succession to a collection that holds none of
\* them answers created = N on the first call and skipped = N, created = 0 on the
\* second call.  (Stated here for N >= 1 and pairwise different MatchKeys.)
C1_IdempotentSyncLocal ==
    \A q1 \in ReqIds, q2 \in ReqIds :
        (InSuccession(q1, q2) /\ FreshValidBatch(reqs[q1])
            /\ reqs[q2].batch = reqs[q1].batch)
        => /\ reqs[q1].status = 200 /\ reqs[q2].status = 200
           /\ Count(reqs[q1].success, "created") = Len(reqs[q1].batch)
           /\ Count(reqs[q2].success, "skipped") = Len(reqs[q2].batch)
           /\ Count(reqs[q2].success, "created") = 0

\* Exactly one record of the batch is invalid, at position i.
OnlyInvalidAt(rq, i) ==
    /\ i \in 1..Len(rq.batch)
    /\ ~ValidRec(rq.batch[i])
    /\ \A j \in 1..Len(rq.batch) : j # i => ValidRec(rq.batch[j])

\* C2 (as claimed, for the reports router): partial-failure isolation.  A batch
\* of k records with exactly one invalid record i (a null record included) is
\* answered 200 with k-1 success entries and one failed entry naming record i.
C2_PartialFailureIsolation ==
    \A q \in ReqIds : \A i \in 1..MaxBatch + 1 :
        (kind = "reports" /\ reqs[q].pc = "done" /\ Authorized(reqs[q])
            /\ OnlyInvalidAt(reqs[q], i))
        => /\ reqs[q].status = 200
           /\ Len(reqs[q].success) = Len(reqs[q].batch) - 1
           /\ reqs[q].failed = <<reqs[q].batch[i].title>>

\* C5 (as claimed): overlapping sync-local requests never leave two documents
\* with the same MatchKey in the collection.
C5_NoDuplicateMatchKey ==
    \A i \in 1..Len(store), j \in 1..Len(store) :
        i # j => DocKey(store[i]) # DocKey(store[j])

(***************************************************************************)
(* The service wired to this repository's server, as initializeApp() does: *)
(* the server stays reachable, the credentials are valid, the callbacks    *)
(* only log, stop() is never called, and the held token may expire.        *)
(***************************************************************************)
\* app.get('/api/health'): no authentication middleware, always 200.
HealthStatus(tok) == 200

\* The Authorization header "Bearer <accessToken>" as authenticateToken sees it.
HeaderToken(tok) == IF tok = "valid" THEN "good" ELSE "bad"

\* Result of a pipeline whose local snapshot is not empty.
PipelineResult(tok) ==
    IF authenticateToken(HeaderToken(tok)) = 0 THEN "success" ELSE "error"

\* The held token's expiry time passes.
TokenExpires ==
    /\ accessToken = "valid"
    /\ accessToken' = "expired"
    /\ UNCHANGED <<isOnline, retryCount, syncInterval, liveIntervals, tasks, timers,
                   stopped, startRets, lastCb, noAnswerYet, remoteVars, unitVars>>

LiveLogin == \E t \in BagToSet(tasks) : LoginDone(t, TRUE)

LiveProbe == \E t \in BagToSet(tasks) : ProbeDone(t, HealthStatus(accessToken))

LivePipeline ==
    \E t \in BagToSet(tasks), out \in {"skipped", PipelineResult(accessToken)} :
        PipelineDone(t, out)

LiveMedia ==
    \E t \in BagToSet(tasks), out \in {"skipped", PipelineResult(accessToken)} :
        MediaDone(t, out, FALSE)

NextLive ==
    \/ Start
    \/ LiveLogin
    \/ Tick
    \/ LiveProbe
    \/ LivePipeline
    \/ LiveMedia
    \/ TokenExpires

\* Timers fire and requests complete (every network call carries a timeout or
\* is answered by the reachable server).
FairLive ==
    /\ WF_vars(Tick)
    /\ WF_vars(LiveLogin)
    /\ WF_vars(LiveProbe)
    /\ WF_vars(LivePipeline)
    /\ WF_vars(LiveMedia)

SpecLive == Init /\ [][NextLive]_vars /\ FairLive

(***************************************************************************)
(* Properties of AuthSyncService                                           *)
(***************************************************************************)
\* Probes in flight that a timer callback (periodic or backoff) issued.
TimerProbes ==
    LET S == {t \in BagToSet(tasks) : t.pc = "probe" /\ ~t.st}
        RECURSIVE Sum(_)
        Sum(X) == IF X = {} THEN 0
                  ELSE LET x == CHOOSE y \in X : TRUE
                       IN CopiesIn(x, tasks) + Sum(X \ {x})
    IN Sum(S)

\* C3 (as claimed): once stop() has returned, no timer callback, periodic or
\* backoff, issues a further probe until start() is called again.
C3_NoProbeAfterStop == [][stopped => TimerProbes' <= TimerProbes]_vars

\* C4 (as claimed): after stop(), accessToken stays absent, isOnline false and
\* retryCount 0 until start() is called again, whatever request was in flight.
C4_StoppedStateStaysCleared ==
    stopped => (accessToken = "none" /\ ~isOnline /\ retryCount = 0)

\* Syncing tasks whose syncData() was called from the 401 branch.
CatchSync(pcs) == {t \in BagToSet(tasks) : t.pc \in pcs /\ t.branch = "catch"}

\* C6 (as claimed): the AuthExpired path (401 probe, re-authentication, the sync
\* pass it starts) leaves retryCount at the value it had.
C6_RetryCountUnchangedByExpiryPath ==
    [][(\/ \E t \in BagToSet(tasks) : ProbeDone(t, 401)
        \/ \E t \in BagToSet(tasks), ok \in BOOLEAN : ReauthDone(t, ok)
        \/ \E t \in CatchSync({"notices", "reports"}), out \in PipelineOutcomes :
              PipelineDone(t, out)
        \/ \E t \in CatchSync({"media"}), out \in PipelineOutcomes, th \in BOOLEAN :
              MediaDone(t, out, th))
       => retryCount' = retryCount]_vars

\* C7 (as claimed): with maxRetries = 5 and the remote unreachable on every
\* probe, a chain of probes continued by backoff callbacks issues at most 5
\* probes: the 6th attempt is never made.
C7_SixthAttemptNeverMade ==
    \A t \in BagToSet(tasks) : t.pc = "probe" => t.depth <= maxRetries

\* C8 (as claimed): whenever authenticate() returns false, accessToken is absent
\* afterwards, also when a token was present before the call.
C8_FailClosedAuthenticate ==
    [][(\E t \in BagToSet(tasks) : LoginDone(t, FALSE) \/ ReauthDone(t, FALSE))
       => accessToken' = "none"]_vars

\* C9: when start()'s authenticate() fails, start() returns false without
\* issuing a probe or arming the periodic timer; and as long as no start() has
\* returned true no periodic timer is armed, no backoff callback is pending and
\* nothing but start() itself is in flight, so no tick ever occurs.
C9_FailFastStart ==
    /\ [][\A t \in BagToSet(tasks) : LoginDone(t, FALSE) =>
            /\ FALSE \in startRets'
            /\ CountAt({"probe"})' = CountAt({"probe"})
            /\ BagCardinality(tasks') = BagCardinality(tasks) - 1
            /\ liveIntervals' = liveIntervals
            /\ syncInterval' = syncInterval]_vars
    /\ [](TRUE \notin startRets =>
            /\ liveIntervals = 0 /\ ~syncInterval
            /\ timers = EmptyBag
            /\ \A t \in BagToSet(tasks) : t.st)

\* start() has returned false because its authenticate() failed.
C9_Witness ==
    /\ startRets = {FALSE}
    /\ lastCb = ErrorCb("Authentication failed")
    /\ tasks = EmptyBag
    /\ ~stopped

\* C10 (as claimed): if the held token expires while the server stays reachable,
\* the service eventually holds a fresh valid token again.
C10_ExpiredTokenIsRenewed == (accessToken = "expired") ~> (accessToken = "valid")

\* C11 (as claimed): stop() leaves no periodic timer armed, accessToken absent,
\* retryCount 0 and isOnline false; and a stop() called in the Stopped state
\* (before any start() included) changes no state variable of the service.
C11_StopClearsAndIsIdempotent ==
    [][Stop =>
        /\ liveIntervals' = 0 /\ ~syncInterval'
        /\ accessToken' = "none" /\ retryCount' = 0 /\ ~isOnline'
        /\ stopped =>
              UNCHANGED <<accessToken, isOnline, retryCount, syncInterval, liveIntervals>>
      ]_vars

\* The backoff callback a step has just scheduled.
NewTimers == {tm \in BagToSet(timers') : CopiesIn(tm, timers') > CopiesIn(tm, timers)}

\* C14 (as claimed): the delay scheduled after the r-th consecutive Unreachable
\* probe since the last reset, r counted from 0 (r is retryCount before the
\* probe is handled), equals min(retryDelay * 2^r, ceiling); the first backoff
\* retry after a reset is scheduled after exactly retryDelay.
C14_BackoffSchedule ==
    [][\A t \in BagToSet(tasks) :
          (ProbeDone(t, 0) /\ noAnswerYet /\ NewTimers # {}) =>
              \A tm \in NewTimers : tm.delay = Min(retryDelay * Pow2(retryCount), MaxDelay)
      ]_vars

\* C16 (as claimed): a 401 or 403 response to a remote call of the service
\* (here: the health probe) leaves accessToken absent.
C16_TokenInvalidatedOnAuthFailure ==
    [][(\E t \in BagToSet(tasks) : ProbeDone(t, 401) \/ ProbeDone(t, 403))
       => accessToken' = "none"]_vars

\* The three branches of the probe classification, as the claim describes them.
AuthExpiredBranch ==
    /\ CountAt({"reauth"})' = CountAt({"reauth"}) + 1
    /\ BagCardinality(timers') = BagCardinality(timers)
    /\ retryCount' = retryCount

OnlineBranch ==
    /\ isOnline' /\ retryCount' = 0
    /\ CountAt({"notices"})' = CountAt({"notices"}) + 1

UnreachableBranch ==
    /\ ~isOnline'
    /\ \/ BagCardinality(timers') = BagCardinality(timers) + 1
       \/ lastCb' = ErrorCb("Max retries reached")

\* C17 (as claimed): a 401 or 403 probe response takes the AuthExpired branch,
\* every 2xx response the Online branch, a transport failure or any other
\* response the Unreachable branch.
C17_ProbeClassification ==
    [][\A t \in BagToSet(tasks), resp \in ProbeResponses :
          ProbeDone(t, resp) =>
              IF resp \in {401, 403} THEN AuthExpiredBranch
              ELSE IF resp \in {200, 204} THEN OnlineBranch
              ELSE UnreachableBranch
      ]_vars

\* C18 (as claimed): GET /api/health answers 200 only to a request that carries
\* a valid bearer token.
C18_HealthRequiresValidToken ==
    [][(\E t \in BagToSet(tasks) : ProbeDone(t, 200)) => accessToken = "valid"]_vars

\* C19 (as claimed): the promise returned by a timer-driven
\* checkConnectionAndSync() never rejects, whatever the probe, the
\* re-authentication, the pipelines and the completion callback do.
C19_NoRejectionAcrossTimerBoundary == lastCb # UnhandledRejection

\* The summary object of the 200 response.
Summary(rq) ==
    [total   |-> Len(rq.batch),
     created |-> Count(rq.success, "created"),
     skipped |-> Count(rq.success, "skipped"),
     failed  |-> Len(rq.failed)]

\* The request was processed with no other request overlapping it.
Alone(q) ==
    /\ reqs[q].pc = "done"
    /\ reqs[q].prior = 1..(q - 1)
    /\ \A p \in ReqIds : p > q => (reqs[p].pc = "idle" \/ q \in reqs[p].prior)

\* The statuses the claim expects for a batch processed in submission order
\* against the keys held so far: nothing for a failing record, "skipped" for a
\* key that is held, "created" otherwise.
RECURSIVE ExpectedStatuses(_, _, _)
ExpectedStatuses(kd, keys, batch) ==
    IF batch = << >> THEN << >>
    ELSE LET rec == Head(batch)
         IN IF ~ValidRec(rec) THEN ExpectedStatuses(kd, keys, Tail(batch))
            ELSE IF QueryKey(kd, rec) \in keys
            THEN <<"skipped">> \o ExpectedStatuses(kd, keys, Tail(batch))
            ELSE <<"created">> \o
                 ExpectedStatuses(kd, keys \cup {QueryKey(kd, rec)}, Tail(batch))

\* C15 (as claimed): for a non-empty batch the notices endpoint answers 200 with
\* one success entry per non-failing record in submission order, 'skipped' when
\* a notice with the same MatchKey is held and 'created' otherwise, and a
\* summary with total = number of submitted records = created + skipped + failed.
C15_NoticesResultShape ==
    \A q \in ReqIds :
        (kind \in {"notices", "noticesV"} /\ Alone(q) /\ Authorized(reqs[q])
            /\ Len(reqs[q].batch) >= 1)
        => LET rq   == reqs[q]
               held == {DocKey(store[i]) : i \in 1..rq.base}
           IN /\ rq.status = 200
              /\ [i \in 1..Len(rq.success) |-> rq.success[i].status]
                    = ExpectedStatuses(kind, held, rq.batch)
              /\ Summary(rq).total = Len(rq.batch)
              /\ Summary(rq).total
                    = Summary(rq).created + Summary(rq).skipped + Summary(rq).failed

(***************************************************************************)
(* getRetryDelay() over configurations and retry counts.  backoff holds    *)
(* the retryDelay passed to the constructor (0: none), this.retryCount and *)
(* the value getRetryDelay() returns for them.                             *)
(***************************************************************************)
MaxRetryCount == 9

\* Values of config.retryDelay, in ms (0: absent).
ConfigDelays == {0, 1, 500, 1000, 30000, 60000, 100000, 150000, 200000,
                 300000, 300001, 400000}

\* retryDelay: config.retryDelay || 60000
ConfigRetryDelay(v) == IF v = 0 THEN retryDelay ELSE v

BackoffAt(cfg, rc) ==
    [cfg |-> cfg, rc |-> rc, delay |-> RetryDelayOf(ConfigRetryDelay(cfg), rc)]

InitBackoff ==
    /\ InitClient /\ IdleRemote
    /\ files = [i \in 1..3 |-> "missing"]
    /\ pass = IdlePass
    /\ backoff \in {BackoffAt(cfg, 0) : cfg \in ConfigDelays}
    /\ xform = IdleXform
    /\ silent = FALSE

\* this.retryCount++ followed by getRetryDelay()
RetryCountIncrement ==
    /\ backoff.rc < MaxRetryCount
    /\ backoff' = BackoffAt(backoff.cfg, backoff.rc + 1)
    /\ UNCHANGED <<files, pass, xform, silent, clientVars, remoteVars>>

\* this.retryCount = 0
RetryCountReset ==
    /\ backoff.rc > 0
    /\ backoff' = BackoffAt(backoff.cfg, 0)
    /\ UNCHANGED <<files, pass, xform, silent, clientVars, remoteVars>>

NextBackoff ==
    \/ RetryCountIncrement
    \/ RetryCountReset

SpecBackoff == InitBackoff /\ [][NextBackoff]_vars

\* C13: for a fixed configuration getRetryDelay() is non-decreasing in
\* retryCount and never exceeds the ceiling of 300000 ms.
C13_BackoffMonotoneAndBounded ==
    /\ [](backoff.delay <= MaxDelay)
    /\ [][backoff'.rc > backoff.rc => backoff'.delay >= backoff.delay]_vars
    /\ [][backoff'.rc < backoff.rc => backoff'.delay <= backoff.delay]_vars

\* The delay has reached the ceiling after growing from a smaller base delay.
C13_Witness ==
    /\ backoff.rc > 0
    /\ backoff.delay = MaxDelay
    /\ ConfigRetryDelay(backoff.cfg) < MaxDelay

(***************************************************************************)
(* Properties of one sync pass                                             *)
(***************************************************************************)
\* The pipeline of PassKinds[i] fails in this pass: its file cannot be read or
\* parsed, a record cannot be transformed, or its request is not answered 2xx.
PipelineFails(i) ==
    \/ files[i] \in {"unreadable", "unparseable", "nullRecord"}
    \/ files[i] = "records" /\ pass.resps[i] # 200

\* C12: in every sync pass (a syncData() call that passed its guard on
\* accessToken) all three pipelines are executed; a pipeline that fails yields
\* the entry {status: 'error', error: message} for its kind and no other
\* kind's entry is an error entry; onSyncComplete is invoked exactly once, with
\* an entry for each of notices, reports and media.
C12_PerKindIsolation ==
    /\ pass.pc \in {"returned", "threw"} /\ ~NotAuthenticated(accessToken) =>
          /\ Len(pass.results) = 3
          /\ pass.completeCalls = 1
          /\ \A i \in 1..3 :
                IF PipelineFails(i)
                THEN pass.results[i].status = "error" /\ pass.results[i].error # ""
                ELSE pass.results[i].status \in {"success", "skipped"}
    /\ pass.completeCalls <= 1
    /\ pass.completeCalls = 1 => Len(pass.results) = 3

\* A pass has ended in which exactly the first pipeline failed.
C12_Witness ==
    /\ pass.pc = "returned"
    /\ PipelineFails(1) /\ ~PipelineFails(2) /\ ~PipelineFails(3)
    /\ pass.results[2].status = "success"
    /\ pass.results[3].status = "success"

\* C20 (as claimed): a local snapshot that is missing or unreadable (not
\* parseable included) is treated as an empty record sequence: the pipeline
\* returns the skipped outcome, not status 'error'.
C20_SnapshotTolerance ==
    \A i \in 1..3 :
        (i <= Len(pass.results) /\ files[i] \in {"missing", "unreadable", "unparseable"})
        => pass.results[i].status = "skipped"

(***************************************************************************)
(* Further properties of AuthSyncService                                   *)
(***************************************************************************)
\* C24: when a probe that fails without an authorization status (no response,
\* or a 500) finds retryCount >= maxRetries, the step schedules no backoff
\* timer, leaves retryCount unchanged, invokes onSyncError with 'Max retries
\* reached' and ends the invocation without issuing another probe.
C24_ExhaustionHandling ==
    [][\A t \in BagToSet(tasks), resp \in {500, 0} :
          (ProbeDone(t, resp) /\ retryCount >= maxRetries) =>
              /\ BagCardinality(timers') = BagCardinality(timers)
              /\ retryCount' = retryCount
              /\ lastCb' = ErrorCb("Max retries reached")
              /\ BagCardinality(tasks') = BagCardinality(tasks) - 1
              /\ CountAt({"probe"})' = CountAt({"probe"}) - 1
      ]_vars

\* The retry budget is used up and the exhaustion has just been reported.
C24_Witness ==
    /\ retryCount = maxRetries
    /\ lastCb = ErrorCb("Max retries reached")
    /\ timers = EmptyBag

\* C25 (as claimed): calling start() resets retryCount to 0, and retryCount
\* goes back to 0 only by a probe classified Online (a 2xx response) or by
\* start() (stop(), which tears the state down, aside).
C25_RetryCountResetOnlyByOnlineOrStart ==
    [][/\ Start => retryCount' = 0
       /\ (retryCount > 0 /\ retryCount' = 0) =>
             \/ Start
             \/ Stop
             \/ \E t \in BagToSet(tasks), resp \in {200, 204} : ProbeDone(t, resp)
      ]_vars

\* C26 (as claimed): right after a probe classified Online (a 2xx response;
\* a token is held, so the sync pass can start) retryCount = 0 and isOnline
\* is true, whatever retryCount was before.
C26_OnlineResetsRetryCount ==
    [][\A t \in BagToSet(tasks), resp \in {200, 204} :
          (ProbeDone(t, resp) /\ ~NotAuthenticated(accessToken)) =>
              retryCount' = 0 /\ isOnline'
      ]_vars

\* The first probe+sync cycle of a start() ends in this step.
StartCycleEnds ==
    /\ \E t \in BagToSet(tasks) : t.st /\ t.pc # "login"
    /\ \A t \in BagToSet(tasks') : ~t.st

\* C27 (as claimed): when the first cycle of start() ends, whatever its
\* outcome, start() arms the periodic timer and returns true.
C27_StartArmsTimerAfterFirstCycle ==
    [][StartCycleEnds =>
          /\ startRets' \subseteq startRets \cup {TRUE}
          /\ TRUE \in startRets'
          /\ liveIntervals' = liveIntervals + 1
          /\ syncInterval'
      ]_vars

\* C28 (as claimed): at most one periodic timer is armed at any time, and none
\* remains armed after stop().
C28_SinglePeriodicTimer ==
    /\ liveIntervals <= 1
    /\ stopped => liveIntervals = 0

(***************************************************************************)
(* Further properties of the sync-local endpoints                          *)
(***************************************************************************)
\* C29 (as claimed): on the notices, reports and media routers every valid
\* record of a submitted batch is answered 'skipped' exactly when the
\* collection holds a document with its MatchKey, whatever the other fields,
\* and is created otherwise.
C29_MatchKeyDecidesOutcome ==
    \A q \in ReqIds :
        (kind \in {"notices", "reports", "media"} /\ Alone(q) /\ Authorized(reqs[q])
            /\ Len(reqs[q].batch) >= 1)
        => LET rq   == reqs[q]
               held == {DocKey(store[i]) : i \in 1..rq.base}
           IN [i \in 1..Len(rq.success) |-> rq.success[i].status]
                 = ExpectedStatuses(kind, held, rq.batch)

\* The step adds a 'skipped' entry to the results of request q.
SkipsRecord(q) ==
    /\ reqs[q].pc = "find"
    /\ Len(reqs'[q].success) = Len(reqs[q].success) + 1
    /\ reqs'[q].success[Len(reqs'[q].success)].status = "skipped"

\* C30: a step that answers a record 'skipped' leaves the collection as it
\* is: no document is created, modified or deleted, also when the submitted
\* record differs from the held one in non-key fields.
C30_SkippedLeavesStoreUnchanged ==
    [][\A q \in ReqIds : SkipsRecord(q) => store' = store]_vars

\* A record was skipped against a held document with other non-key fields.
C30_Witness ==
    \E q \in ReqIds :
        /\ reqs[q].pc = "done" /\ reqs[q].status = 200
        /\ reqs[q].batch = <<RA>>
        /\ reqs[q].success = <<[status |-> "skipped", id |-> 1]>>
        /\ store = <<DocA0>>
        /\ DocA0.body # RA.body

(***************************************************************************)
(* Further properties of one sync pass                                     *)
(***************************************************************************)
\* C21 (as claimed): for each of the three kinds, when the kind's sync-local
\* request succeeds, the kind's entry in the SyncResult handed to
\* onSyncComplete carries the remote outcome exactly as received.
C21_RemoteOutcomePassedThrough ==
    pass.completeCalls = 1 =>
        \A i \in 1..3 :
            pass.results[i].status = "success" => pass.results[i].synced = pass.datas[i]

(***************************************************************************)
(* The transform of one pipeline (syncNotices 185-189, syncReports         *)
(* 231-234, syncMedia 298-302): records are objects, modelled as functions *)
(* from field names to values; null is the one value that cannot be        *)
(* destructured.                                                           *)
(***************************************************************************)
MaxSnapshot == 2

NestedInfo == [id |-> 7, org |-> "o"]

LPlain == [title |-> "A", info |-> NestedInfo]
LId    == [id |-> 1, title |-> "A", info |-> NestedInfo]
LOid   == [_id |-> "x", title |-> "B", info |-> NestedInfo]
LBoth  == [id |-> 1, _id |-> "x", title |-> "A", info |-> NestedInfo]
LNull  == [null |-> TRUE]

LocalValues == {LPlain, LId, LOid, LBoth, LNull}

Snapshots == UNION {[1..n -> LocalValues] : n \in 0..MaxSnapshot}

IsNull(rec) == "null" \in DOMAIN rec

\* const { id, _id, ...rest } = record, with nothing removed
StripKeepsIdentity(rec) == rec

\* const { id, _id, ...rest } = record; return rest
Strip(rec) == [f \in DOMAIN rec \ {"id", "_id"} |-> rec[f]]

\* records.map(record => ...): a new array of new objects
Transformed(snapshot) == [i \in 1..Len(snapshot) |-> Strip(snapshot[i])]

\* destructuring null throws a TypeError inside the pipeline's try
TransformThrows(snapshot) == \E i \in 1..Len(snapshot) : IsNull(snapshot[i])

PostOutcomes == {"created", "skipped", "failed", "transport error"}

\* from the read of the local file up to the axios.post being issued
TransformAndPost ==
    /\ xform.pc = "read"
    /\ xform' =
         IF Len(xform.local) = 0
         THEN [xform EXCEPT !.pc = "done", !.outcome = "skipped"]
         ELSE IF TransformThrows(xform.local)
         THEN [xform EXCEPT !.pc = "done", !.outcome = "error"]
         ELSE [xform EXCEPT !.pc = "posted", !.sent = Transformed(xform.local)]
    /\ UNCHANGED <<files, pass, backoff, silent, clientVars, remoteVars>>

\* the axios.post settles: the return at 204-207 or the catch at 208-215
PostSettles(out) ==
    /\ xform.pc = "posted"
    /\ xform' = [xform EXCEPT !.pc = "done",
                              !.outcome = IF out = "transport error" THEN "error" ELSE out]
    /\ UNCHANGED <<files, pass, backoff, silent, clientVars, remoteVars>>

InitTransform ==
    /\ InitClient
    /\ IdleRemote
    /\ files = [i \in 1..3 |-> "missing"]
    /\ pass = IdlePass
    /\ backoff = [cfg |-> retryDelay, rc |-> 0, delay |-> retryDelay]
    /\ silent = FALSE
    /\ xform \in [kd : 1..3, local : Snapshots, sent : {<< >>}, pc : {"read"},
                  outcome : {"none"}]

PostReturns == \E out \in PostOutcomes : PostSettles(out)

NextTransform ==
    \/ TransformAndPost
    \/ PostReturns

SpecTransform == InitTransform /\ [][NextTransform]_vars

\* C22: every record transmitted to a sync-local endpoint has neither a
\* top-level id nor a top-level _id and equals its local record on every other
\* field, and no step of the pipeline changes the snapshot read from local
\* storage, whatever the remote outcome.
C22_StripWithoutLocalMutation ==
    /\ [](\A i \in 1..Len(xform.sent) :
             /\ Len(xform.sent) = Len(xform.local)
             /\ "id" \notin DOMAIN xform.sent[i]
             /\ "_id" \notin DOMAIN xform.sent[i]
             /\ DOMAIN xform.sent[i] = DOMAIN xform.local[i] \ {"id", "_id"}
             /\ \A f \in DOMAIN xform.sent[i] : xform.sent[i][f] = xform.local[i][f])
    /\ [][xform'.local = xform.local]_vars

C22_Witness ==
    /\ xform.pc = "done"
    /\ xform.outcome = "failed"
    /\ Len(xform.sent) = 2
    /\ xform.local[1] = LBoth
    /\ xform.local[2] = LOid
    /\ xform.sent[1].info.id = 7


(***************************************************************************)
(* The service against a remote that accepts connections and, from some    *)
(* moment on, answers nothing.  A request that carries a timeout is        *)
(* rejected by axios when the timeout passes; a request without one stays  *)
(* pending.  Credentials are valid and the callbacks only log.             *)
(***************************************************************************)
\* axios.post(`${serverUrl}/auth/user/login`, credentials): no timeout option
LoginHasTimeout == FALSE

\* axios.get(`${serverUrl}/api/health`, { ..., timeout: 5000 })
ProbeHasTimeout == TRUE

\* axios.post(.../sync-local, ..., { ..., timeout: 10000 }) (media: 30000)
PipelineHasTimeout == TRUE

\* Whether a request in flight settles at all.
Settles(hasTimeout) == ~silent \/ hasTimeout

SilentProbeStatus == IF silent THEN 0 ELSE 200

SilentPipelineOutcomes == IF silent THEN {"skipped", "error"} ELSE {"skipped", "success"}

\* The remote stops answering.
GoesSilent ==
    /\ ~silent
    /\ silent' = TRUE
    /\ UNCHANGED <<files, pass, backoff, xform, clientVars, remoteVars>>

\* Room for the timer a failed probe arms.
HasRoom == BagCardinality(tasks) + BagCardinality(timers) < MaxTasks

SilentStart == HasRoom /\ Start

SilentTick == HasRoom /\ Tick

SilentLogin ==
    \E t \in BagToSet(tasks) : Settles(LoginHasTimeout) /\ LoginDone(t, TRUE)

SilentProbeOf(st) ==
    \E t \in BagToSet(tasks) :
        t.st = st /\ Settles(ProbeHasTimeout) /\ ProbeDone(t, SilentProbeStatus)

SilentPipelineOf(st) ==
    \E t \in BagToSet(tasks), out \in SilentPipelineOutcomes :
        t.st = st /\ Settles(PipelineHasTimeout) /\ PipelineDone(t, out)

SilentMediaOf(st) ==
    \E t \in BagToSet(tasks), out \in SilentPipelineOutcomes :
        t.st = st /\ Settles(PipelineHasTimeout) /\ MediaDone(t, out, FALSE)

SilentProbe == \E st \in BOOLEAN : SilentProbeOf(st)

SilentPipeline == \E st \in BOOLEAN : SilentPipelineOf(st)

SilentMedia == \E st \in BOOLEAN : SilentMediaOf(st)

NextSilent ==
    \/ SilentStart
    \/ SilentLogin
    \/ SilentTick
    \/ BackoffFires
    \/ SilentProbe
    \/ SilentPipeline
    \/ SilentMedia
    \/ GoesSilent

\* Timers fire, and every request that can settle does: each invocation gets
\* its turn however many others are in flight.
FairSilent ==
    /\ WF_vars(BackoffFires)
    /\ SF_vars(SilentLogin)
    /\ \A st \in BOOLEAN :
         /\ SF_vars(SilentProbeOf(st))
         /\ SF_vars(SilentPipelineOf(st))
         /\ SF_vars(SilentMediaOf(st))

SpecSilent == Init /\ [][NextSilent]_vars /\ FairSilent

\* A start() invocation that has not returned yet.
StartPending == \E t \in BagToSet(tasks) : t.st

\* start() is inside the checkConnectionAndSync() it awaits.
StartInCheck == \E t \in BagToSet(tasks) : t.st /\ t.pc # "login"

\* C23 (as claimed): against a remote that accepts connections but never
\* responds, every start() invocation, with the authenticate() and the
\* checkConnectionAndSync() it awaits, eventually completes.
C23_StartCompletesAgainstSilentRemote == StartPending ~> ~StartPending


\* C31: a pipeline whose local record sequence is empty, or whose key is
\* absent from the snapshot (also the default returned for a missing file),
\* returns the 'skipped' entry and issues no request to sync-local.
C31_EmptySkipsWithoutRequest ==
    \A i \in 1..Len(pass.results) :
        files[i] \in {"missing", "noKey", "empty"} =>
            /\ pass.results[i] = SkippedEntry
            /\ ~pass.sents[i]

C31_Witness ==
    /\ pass.pc = "returned"
    /\ files = <<"empty", "noKey", "records">>
    /\ pass.results[1].status = "skipped"
    /\ pass.results[2].status = "skipped"
    /\ ~pass.sents[1] /\ ~pass.sents[2] /\ pass.sents[3]

(***************************************************************************)
(* The retry budget                                                        *)
(***************************************************************************)
\* C32: in every reachable state, under any interleaving of regular ticks,
\* backoff callbacks, re-authentications, sync passes and stop(),
\* 0 <= retryCount <= maxRetries.
C32_RetryCountWithinBudget == retryCount \in 0..maxRetries

\* The last increment the budget allows has armed its backoff timer while
\* another invocation is still in flight.
C32_Witness ==
    /\ retryCount = maxRetries
    /\ BagCardinality(timers) = 1
    /\ tasks # EmptyBag

(***************************************************************************)
(* The service against a remote that comes and goes: valid credentials,    *)
(* probes answered 200 or not at all, pipelines that succeed, callbacks    *)
(* that only log, stop() never called.  Backoff timers may stay pending    *)
(* for as long as their delay lasts, so up to MaxPending of them are       *)
(* followed.                                                               *)
(***************************************************************************)
MaxPending == 6

FlapLogin == \E t \in BagToSet(tasks) : LoginDone(t, TRUE)

FlapProbe ==
    \E t \in BagToSet(tasks), resp \in {200, 0} : ProbeDoneWithin(t, resp, MaxPending)

FlapPipeline == \E t \in BagToSet(tasks) : PipelineDone(t, "success")

FlapMedia == \E t \in BagToSet(tasks) : MediaDone(t, "success", FALSE)

NextFlap ==
    \/ Start
    \/ FlapLogin
    \/ Tick
    \/ BackoffFires
    \/ FlapProbe
    \/ FlapPipeline
    \/ FlapMedia

SpecFlap == Init /\ [][NextFlap]_vars

\* C33 (as claimed): the number of backoff callbacks that are scheduled and
\* not yet fired never exceeds maxRetries, under any interleaving of failing
\* regular ticks, failing backoff callbacks and successful probes that reset
\* retryCount.
C33_PendingBackoffsWithinBudget == BagCardinality(timers) <= maxRetries

(***************************************************************************)
(* Deduplication by the sync-local endpoints                               *)
(***************************************************************************)
\* Every request so far arrived after all earlier ones had been answered.
NoOverlap == \A q \in ReqIds : reqs[q].pc # "idle" => reqs[q].prior = 1..(q - 1)

\* C34 (as claimed): on the notices, reports and media routers, starting from
\* a collection without two documents of the same MatchKey, after any
\* sequence of non-overlapping sync-local calls, whatever their batches, no
\* two documents share a MatchKey; and within each answered batch the first
\* record with a key the collection lacks is created and every later record
\* with that key is skipped.
C34_SequentialCallsKeepKeysUnique ==
    (kind \in {"notices", "reports", "media"} /\ NoOverlap) =>
        /\ \A i \in 1..Len(store), j \in 1..Len(store) :
              i < j => DocKey(store[i]) # DocKey(store[j])
        /\ \A q \in ReqIds :
              (reqs[q].pc = "done" /\ Authorized(reqs[q]) /\ Len(reqs[q].batch) >= 1) =>
                  [i \in 1..Len(reqs[q].success) |-> reqs[q].success[i].status]
                     = ExpectedStatuses(kind, {DocKey(store[i]) : i \in 1..reqs[q].base},
                                        reqs[q].batch)

\* Number of valid records in the batch of request q.
ValidCount(q) == Cardinality({i \in 1..Len(reqs[q].batch) : ValidRec(reqs[q].batch[i])})

\* C35: on the reports and media routers, whose title is stored trimmed, a
\* batch that holds a valid record with leading whitespace in its title and
\* is submitted again right after it was processed creates nothing the second
\* time: every valid record of it, the padded one included, is skipped.
C35_TrimmedTitleStillMatches ==
    \A q1 \in ReqIds, q2 \in ReqIds :
        (/\ kind \in {"reports", "media"}
         /\ InSuccession(q1, q2)
         /\ reqs[q1].status = 200 /\ reqs[q2].status = 200
         /\ reqs[q2].batch = reqs[q1].batch
         /\ \E i \in 1..Len(reqs[q1].batch) : reqs[q1].batch[i] = RAw)
        => /\ Count(reqs[q2].success, "created") = 0
           /\ Count(reqs[q2].success, "skipped") = ValidCount(q2)
           /\ \E i \in 1..reqs[q2].base : DocKey(store[i]) = <<Trim(RAw.title), RAw.k>>

\* The padded record was created by the first call and skipped by the second.
C35_Witness ==
    /\ kind = "reports"
    /\ InSuccession(1, 2)
    /\ reqs[1].batch = <<RAw>>
    /\ reqs[1].success = <<[status |-> "created", id |-> 1]>>
    /\ reqs[2].success = <<[status |-> "skipped", id |-> 1]>>
    /\ store = <<[title |-> "A", k |-> "k1", body |-> 1]>>

(***************************************************************************)
(* The cycle that follows an Online probe                                  *)
(***************************************************************************)
\* C36 (as claimed): a probe classified Online never leads to the Unreachable
\* handling in the same cycle.  When syncData() throws right after the probe
\* because the token is absent, isOnline is true and retryCount 0 afterwards
\* and no backoff timer is scheduled; when the completion callback throws at
\* the end of that pass, isOnline and retryCount keep their values and no
\* backoff timer is scheduled.
C36_OnlineCycleNeverBacksOff ==
    [][/\ \A t \in BagToSet(tasks) :
            (ProbeDone(t, 200) /\ NotAuthenticated(accessToken)) =>
                /\ isOnline'
                /\ retryCount' = 0
                /\ BagCardinality(timers') = BagCardinality(timers)
       /\ \A t \in BagToSet(tasks), out \in PipelineOutcomes :
            (t.branch = "try" /\ MediaDone(t, out, TRUE)) =>
                /\ isOnline' = isOnline
                /\ retryCount' = retryCount
                /\ BagCardinality(timers') = BagCardinality(timers)
      ]_vars

(***************************************************************************)
(* The service against a remote that goes away and comes back: probes and  *)
(* pipelines are answered while it is there and time out while it is not.  *)
(* Credentials are valid, the callbacks only log, the periodic timer keeps *)
(* firing, and stop() may be called at any time.                           *)
(***************************************************************************)
\* The remote answers again.
Recovers ==
    /\ silent
    /\ silent' = FALSE
    /\ UNCHANGED <<files, pass, backoff, xform, clientVars, remoteVars>>

NextRecover ==
    \/ SilentStart
    \/ SilentLogin
    \/ SilentTick
    \/ BackoffFires
    \/ SilentProbe
    \/ SilentPipeline
    \/ SilentMedia
    \/ Stop
    \/ GoesSilent
    \/ Recovers

FairRecover == FairSilent /\ WF_vars(SilentTick)

SpecRecover == Init /\ [][NextRecover]_vars /\ FairRecover

\* Started and not stopped, the periodic timer armed, a valid token held.
Running == liveIntervals >= 1 /\ ~stopped /\ accessToken = "valid"

\* C37: while the service is running, the token valid and the remote
\* reachable, then, unless the remote goes away again or the service is
\* stopped, eventually a probe has been classified Online, retryCount is 0
\* and the completion callback was the last one invoked; also when the retry
\* budget was used up ('Max retries reached') before.
C37_RecoversAfterExhaustion ==
    (Running /\ ~silent) ~>
        (silent \/ ~Running \/ (isOnline /\ retryCount = 0 /\ lastCb = CompleteCb))

\* The budget is used up, the exhaustion was reported, and the remote is back.
C37_Witness ==
    /\ Running /\ ~silent
    /\ retryCount = maxRetries
    /\ lastCb = ErrorCb("Max retries reached")
    /\ ~isOnline

(***************************************************************************)
(* Authentication of sync-local requests                                   *)
(***************************************************************************)
\* The request carries no bearer token at all.
NoBearerToken(h) == h \in {"absent", "", "Bearer", "Basic bad"}

\* The request is answered st at once and the handler body does not run:
\* nothing is looked up, no result is produced, the collection is as before.
AnsweredWithoutHandler(q, st) ==
    /\ reqs'[q].pc = "done"
    /\ reqs'[q].status = st
    /\ reqs'[q].success = << >> /\ reqs'[q].failed = << >>
    /\ store' = store

\* C38 (as claimed): a sync-local request without a bearer token is answered
\* 401 and one with an invalid or expired token is answered 403, and in both
\* cases the handler body does not run and the collection is unchanged.
C38_UnauthenticatedRequestsRejected ==
    [][\A q \in ReqIds, h \in Headers :
          Submit(q, ExtractToken(h)) =>
              /\ NoBearerToken(h) => AnsweredWithoutHandler(q, 401)
              /\ h = "Bearer bad" => AnsweredWithoutHandler(q, 403)
      ]_vars

====
